---- MODULE Spec2Model ----
(***************************************************************************)
(* A model of the ticket API: the validated field types of src/src/data.rs, *)
(* the concurrent TicketStore of src/src/store.rs (a tokio RwLock around    *)
(* the id -> slot map, and one tokio RwLock per ticket) and the request     *)
(* handlers of src/src/handlers.rs that call it.                            *)
(*                                                                         *)
(* Strings are kept run-length encoded: a string is a sequence of runs      *)
(* <<char, count>>, adjacent runs holding different chars.  The three chars *)
(* are "a" (a one-byte letter), " " (one-byte white space) and "E" (a       *)
(* two-byte letter, as U+00E9 is in UTF-8).  String::len() is the byte      *)
(* length, str::trim() strips the white space at both ends.                 *)
(***************************************************************************)
EXTENDS Integers, Sequences, FiniteSets, TLC

\* ------------------------------------------------------------ bounds
NumTasks == 3      \* tasks of the runtime
MaxClients == 2    \* of them, the tasks that serve requests in Spec
MaxTickets == 3    \* ids TicketId::new() can draw
MaxOps == 3        \* requests served in one behaviour of Spec
MaxRuns == 3       \* runs of equal characters in a string handed to a constructor

\* ------------------------------------------------- program constants
MaxTitleLen == 100
MaxDescriptionLen == 1000

Tasks == 1..NumTasks
Ids == 1..MaxTickets
BadId == 0

\* ------------------------------------------------------------ strings
Rep(c, n) == IF n = 0 THEN <<>> ELSE << <<c, n>> >>

Width(c) == IF c = "E" THEN 2 ELSE 1

IsWhitespace(c) == c = " "

RECURSIVE ByteLen(_)
ByteLen(s) == IF s = <<>> THEN 0 ELSE Width(Head(s)[1]) * Head(s)[2] + ByteLen(Tail(s))

RECURSIVE TrimStart(_)
TrimStart(s) ==
    IF s # <<>> /\ IsWhitespace(Head(s)[1]) THEN TrimStart(Tail(s)) ELSE s

RECURSIVE TrimEnd(_)
TrimEnd(s) ==
    IF s # <<>> /\ IsWhitespace(s[Len(s)][1]) THEN TrimEnd(SubSeq(s, 1, Len(s) - 1)) ELSE s

Trim(s) == TrimEnd(TrimStart(s))

\* Option<T>: <<>> is None, <<v>> is Some(v).
None == <<>>
Some(v) == <<v>>

\* ------------------------------------------------------------ data.rs
Ok(v) == [ok |-> TRUE, val |-> v, err |-> ""]
Err(e) == [ok |-> FALSE, val |-> <<>>, err |-> e]

EmptyTitle == "Title cannot be empty"
TitleTooLong == "Title cannot be longer than 100 characters"
DescriptionTooLong == "Description cannot be longer than 1000 characters"

TicketTitleNewOffByOne(title) ==
    IF Trim(title) = <<>> THEN Err(EmptyTitle)
    ELSE IF ByteLen(title) >= MaxTitleLen THEN Err(TitleTooLong) ELSE Ok(title)

TicketTitleNewTrimmed(title) ==
    IF Trim(title) = <<>> THEN Err(EmptyTitle)
    ELSE IF ByteLen(title) > MaxTitleLen THEN Err(TitleTooLong) ELSE Ok(Trim(title))

TicketDescriptionNewOffByOne(description) ==
    IF ByteLen(description) >= MaxDescriptionLen
    THEN Err(DescriptionTooLong)
    ELSE Ok(description)

TicketTitleNewNoLimit(title) ==
    IF Trim(title) = <<>> THEN Err("Title cannot be empty") ELSE Ok(title)

TicketTitleNewNoTrim(title) ==
    IF title = <<>> THEN Err("Title cannot be empty")
    ELSE IF ByteLen(title) > MaxTitleLen
         THEN Err("Title cannot be longer than 100 characters")
         ELSE Ok(title)

TicketTitleNew(title) ==
    IF Trim(title) = <<>> THEN Err("Title cannot be empty")
    ELSE IF ByteLen(title) > MaxTitleLen
         THEN Err("Title cannot be longer than 100 characters")
         ELSE Ok(title)

TicketDescriptionNew(description) ==
    IF ByteLen(description) > MaxDescriptionLen
    THEN Err("Description cannot be longer than 1000 characters")
    ELSE Ok(description)

StatusValues == {"ToDo", "InProgress", "Done"}

\* Status::ToDo is what add_ticket gives a new ticket.
NewTicketDone(id, title, description) ==
    [id |-> id, title |-> title, description |-> description, status |-> "Done"]

NewTicket(id, title, description) ==
    [id |-> id, title |-> title, description |-> description, status |-> "ToDo"]

\* ------------------------------------------------- tokio::sync::RwLock
\* A lock is the set of its holders <<task, mode>> and the FIFO queue of the
\* requests <<task, mode>> that wait: tokio's RwLock is fair (write-preferring),
\* a request is granted at once only when nothing waits and the mode is free,
\* and a release hands the lock to the head(s) of the queue.
FreeLock == [holders |-> {}, queue |-> <<>>]

CanGrantShared(mode, holders) == \A h \in holders : h[2] = "R"

CanGrantNoWait(mode, holders) == TRUE

CanGrant(mode, holders) ==
    IF mode = "W" THEN holders = {} ELSE \A h \in holders : h[2] = "R"

RECURSIVE Grant(_)
Grant(l) ==
    IF l.queue # <<>> /\ CanGrant(Head(l.queue)[2], l.holders)
    THEN Grant([holders |-> l.holders \cup {Head(l.queue)}, queue |-> Tail(l.queue)])
    ELSE l

Acquire(l, t, mode) == Grant([l EXCEPT !.queue = Append(@, <<t, mode>>)])

ReleaseNoWake(l, t) == [l EXCEPT !.holders = {h \in @ : h[1] # t}]

Release(l, t) == Grant([l EXCEPT !.holders = {h \in @ : h[1] # t}])

Holds(l, t) == \E h \in l.holders : h[1] = t

HoldsIn(l, t, mode) == <<t, mode>> \in l.holders

Waits(l, t) == \E i \in DOMAIN l.queue : l.queue[i][1] = t

\* The tasks a request of `mode` has to wait for: none when it is granted at
\* once, else the holders and the requests queued before it.
Blockers(l, mode) ==
    IF l.queue = <<>> /\ CanGrant(mode, l.holders)
    THEN {}
    ELSE {h[1] : h \in l.holders} \cup {l.queue[i][1] : i \in DOMAIN l.queue}

\* The store call a position belongs to.
CallAt(p) ==
    CASE p \in {"add_insert"} -> "add_ticket"
      [] p \in {"get_lock", "get_lookup", "get_read", "get_unlock"} -> "get_ticket"
      [] p \in {"patch_lookup", "patch_title", "patch_description", "patch_status",
                "patch_drop", "patch_unlock"} -> "patch_ticket"
      [] p \in {"list_next", "list_read", "list_unlock"} -> "list_tickets"
      [] OTHER -> "none"

\* ------------------------------------------------------------- inputs
TitleOk == << <<" ", 1>>, <<"a", 1>>, <<" ", 1>> >>   \* " a ": valid, kept untrimmed
TitleMax == Rep("a", 100)                           \* valid, at the limit
TitleBlank == Rep(" ", 2)                           \* white space only
TitleLong == Rep("a", 101)                          \* one byte over the limit
DescriptionEmpty == <<>>
DescriptionMax == Rep("a", 1000)                    \* valid, at the limit
DescriptionLong == Rep("a", 1001)                   \* one byte over the limit

\* The bodies of POST /tickets the tasks send.
CreateInputs ==
    { [title |-> TitleOk, description |-> DescriptionEmpty],
      [title |-> TitleMax, description |-> DescriptionMax],
      [title |-> TitleBlank, description |-> DescriptionEmpty],
      [title |-> TitleLong, description |-> DescriptionEmpty],
      [title |-> TitleOk, description |-> DescriptionLong] }

\* The bodies of PATCH /tickets/:id the tasks send.
PatchInputs ==
    { [title |-> Some(TitleMax), description |-> None, status |-> None],
      [title |-> None, description |-> Some(DescriptionMax), status |-> None],
      [title |-> None, description |-> None, status |-> Some("InProgress")],
      [title |-> Some(TitleMax), description |-> Some(DescriptionLong),
       status |-> Some("Done")],
      [title |-> Some(TitleBlank), description |-> Some(DescriptionMax),
       status |-> Some("Done")],
      [title |-> Some(TitleLong), description |-> Some(DescriptionMax),
       status |-> Some("Done")],
      [title |-> Some(TitleOk), description |-> Some(DescriptionEmpty),
       status |-> Some("Done")] }

NoRequest == [op |-> "none", title |-> None, description |-> None, status |-> None]

\* StoreError and the Ok values of the store's calls.
NoResult == [kind |-> "none", ticket |-> None, id |-> BadId, field |-> ""]
OkTicket(tk) == [kind |-> "Ok", ticket |-> Some(tk), id |-> tk.id, field |-> ""]
TicketNotFoundNil(id) ==
    [kind |-> "TicketNotFound", ticket |-> None, id |-> BadId, field |-> ""]
TicketNotFound(id) == [kind |-> "TicketNotFound", ticket |-> None, id |-> id, field |-> ""]
InvalidField(f) == [kind |-> "InvalidField", ticket |-> None, id |-> BadId, field |-> f]

VARIABLES
    tickets,    \* TicketStore.tickets: id -> Ticket, for the ids inserted
    mapLock,    \* the RwLock around the HashMap
    slotLock,   \* the RwLock of each ticket's slot
    issued,     \* the ids TicketId::new() has produced
    pc,         \* each task's position in the call it runs
    cur,        \* each task's request
    tid,        \* the TicketId the task's store call works on
    out,        \* list_tickets: result, the Vec<Ticket>
    result,     \* the value the task's last store call returned
    http,       \* the handler's StatusCode, 0 while it runs
    nOps,       \* requests started so far
    returned,   \* history: how many add_ticket calls returned each id
    writer,     \* history: the task that last assigned each field, 0 the draft
    before,     \* history: the ticket when patch_ticket got its write lock
    blockedBy,  \* history: the calls the current request had to wait for
    known,      \* history: the ids add_ticket had returned when list_tickets began
    lastGet,    \* history: what get_ticket last returned for each id, None once patched
    seen,       \* history: the store's contents since the task's list_tickets began
    input,      \* the string handed to a field's constructor on its own
    verdict     \* what the constructor answered

vars == <<tickets, mapLock, slotLock, issued, pc, cur, tid, out, result,
          http, nOps, returned, writer, before, blockedBy, known,
          lastGet, seen, input, verdict>>

NoVerdict == [fn |-> "none", r |-> Err("")]

\* TicketStore::new(): an empty map, no request running.
InitStore ==
    /\ tickets = <<>>
    /\ mapLock = FreeLock
    /\ slotLock = [i \in Ids |-> FreeLock]
    /\ issued = {}
    /\ pc = [t \in Tasks |-> "idle"]
    /\ cur = [t \in Tasks |-> NoRequest]
    /\ tid = [t \in Tasks |-> BadId]
    /\ out = [t \in Tasks |-> <<>>]
    /\ result = [t \in Tasks |-> NoResult]
    /\ http = [t \in Tasks |-> 0]
    /\ nOps = 0
    /\ returned = [i \in Ids |-> 0]
    /\ writer = [i \in Ids |-> [title |-> 0, description |-> 0, status |-> 0]]
    /\ before = [t \in Tasks |-> None]
    /\ blockedBy = [t \in Tasks |-> {}]
    /\ known = [t \in Tasks |-> {}]
    /\ lastGet = [i \in Ids |-> None]
    /\ seen = [t \in Tasks |-> {}]
    /\ verdict = NoVerdict

Init == InitStore /\ input = <<>>

\* ------------------------------------------------------------ helpers
\* TicketId::new() is Uuid::new_v4(): 122 random bits, taken never to repeat.
\* Ids are only ever compared for equality, so the fresh id drawn is, without
\* loss, the least one not drawn yet (none when the bound MaxTickets is used up).
Fresh == Ids \ issued

TicketIdNewRepeating == IF Fresh = {} THEN {} ELSE Ids

TicketIdNew == {id \in Fresh : \A other \in Fresh : id <= other}

\* HashMap::insert
InsertAlone(map, id, tk) == [i \in {id} |-> tk]

InsertLost(map, id, tk) == map

InsertOverwriting(map, id, tk) ==
    [i \in DOMAIN map \cup {id} |-> [tk EXCEPT !.id = i]]

Insert(map, id, tk) ==
    [i \in DOMAIN map \cup {id} |-> IF i = id THEN tk ELSE map[i]]

\* Ticket::clone (derived): a copy, field by field.
CloneDefaultStatus(tk) == [tk EXCEPT !.status = "ToDo"]

Clone(tk) == tk

\* HashMap::get: whether the map has a slot for id.
Found(id) == id \in DOMAIN tickets

\* ticket.title = title, ticket.description = description, ticket.status = status
ApplyTitleSkipped(tk, title) == tk

ApplyTitle(tk, title) == [tk EXCEPT !.title = title]

ApplyDescriptionSkipped(tk, description) == tk

ApplyDescription(tk, description) == [tk EXCEPT !.description = description]

ApplyStatusClearing(tk, status) == [tk EXCEPT !.status = status, !.description = <<>>]

ApplyStatus(tk, status) == [tk EXCEPT !.status = status]

\* The calls a request of `mode` for lock l waits for, as <<task, call>>.
WaitsFor(l, mode) == {<<u, CallAt(pc[u])>> : u \in Blockers(l, mode)}

AcquireMap(t, mode) ==
    /\ mapLock' = Acquire(mapLock, t, mode)
    /\ blockedBy' = [blockedBy EXCEPT ![t] = @ \cup WaitsFor(mapLock, mode)]

AcquireSlot(t, id, mode) ==
    /\ slotLock' = [slotLock EXCEPT ![id] = Acquire(@, t, mode)]
    /\ blockedBy' = [blockedBy EXCEPT ![t] = @ \cup WaitsFor(slotLock[id], mode)]

ReleaseSlot(t, id) == slotLock' = [slotLock EXCEPT ![id] = Release(@, t)]

ReleaseMap(t) == mapLock' = Release(mapLock, t)

\* Uuid::parse_str of the path segment: BadId stands for a string that is no UUID.
ParsesAsUuid(id) == id # BadId

\* The StatusCode each handler gives for the store's answer.
CreateStatus(r) == IF r.kind = "Ok" THEN 201 ELSE 500
GetStatus(r) ==
    IF r.kind = "Ok" THEN 200 ELSE IF r.kind = "TicketNotFound" THEN 404 ELSE 500
PatchStatus(r) ==
    IF r.kind = "Ok" THEN 200 ELSE IF r.kind = "TicketNotFound" THEN 404 ELSE 400
ListStatus == 200
BadRequest == 400

\* History kept by every step of the store: l is what get_ticket last returned
\* for each id after the step; a task in list_tickets collects the contents the
\* store has had from the call to the return.
Track(l) ==
    /\ lastGet' = l
    /\ seen' = [t \in Tasks |->
                  IF cur'[t].op # "list" \/ pc'[t] \in {"idle", "done"} THEN {}
                  ELSE IF pc[t] \in {"idle", "done"} THEN {tickets, tickets'}
                  ELSE seen[t] \cup {tickets'}]
    /\ UNCHANGED <<input, verdict>>

\* A task takes its next request when it runs none: what the last one left in
\* its locals is gone.
CanStart(t, limit) == pc[t] \in {"idle", "done"} /\ nOps < limit

Begin(t) ==
    /\ nOps' = nOps + 1
    /\ out' = [out EXCEPT ![t] = <<>>]
    /\ result' = [result EXCEPT ![t] = NoResult]
    /\ before' = [before EXCEPT ![t] = None]
    /\ known' = [known EXCEPT ![t] = IF cur'[t].op = "list"
                                     THEN {i \in Ids : returned[i] > 0} ELSE {}]

\* --------------------------------------------- handlers::create_ticket
\* Validates the title, then the description; a valid draft goes to add_ticket,
\* which draws the id, builds the ticket and asks for the map's write lock.
StartCreate(t, limit, requests) ==
    /\ CanStart(t, limit)
    /\ \E request \in requests :
         /\ cur' = [cur EXCEPT ![t] = [op |-> "create", title |-> Some(request.title),
                                       description |-> Some(request.description),
                                       status |-> None]]
         /\ IF /\ TicketTitleNew(request.title).ok
               /\ TicketDescriptionNew(request.description).ok
            THEN \E id \in TicketIdNew :
                   /\ issued' = issued \cup {id}
                   /\ tid' = [tid EXCEPT ![t] = id]
                   /\ mapLock' = Acquire(mapLock, t, "W")
                   /\ blockedBy' = [blockedBy EXCEPT ![t] = WaitsFor(mapLock, "W")]
                   /\ pc' = [pc EXCEPT ![t] = "add_insert"]
                   /\ http' = [http EXCEPT ![t] = 0]
            ELSE /\ http' = [http EXCEPT ![t] = BadRequest]
                 /\ pc' = [pc EXCEPT ![t] = "done"]
                 /\ tid' = [tid EXCEPT ![t] = BadId]
                 /\ blockedBy' = [blockedBy EXCEPT ![t] = {}]
                 /\ UNCHANGED <<issued, mapLock>>
    /\ Begin(t)
    /\ UNCHANGED <<tickets, slotLock, returned, writer>>
    /\ Track(lastGet)

\* add_ticket, holding the write lock: tickets.insert(id.clone(), ticket_arc),
\* then the guard is dropped and id returned.
AddInsert(t) ==
    /\ pc[t] = "add_insert"
    /\ HoldsIn(mapLock, t, "W")
    /\ tickets' = Insert(tickets, tid[t],
                         NewTicket(tid[t], cur[t].title[1], cur[t].description[1]))
    /\ writer' = [writer EXCEPT ![tid[t]] = [title |-> 0, description |-> 0, status |-> 0]]
    /\ ReleaseMap(t)
    /\ returned' = [returned EXCEPT ![tid[t]] = @ + 1]
    /\ pc' = [pc EXCEPT ![t] = "get_lock"]
    /\ UNCHANGED <<slotLock, issued, cur, tid, out, result, http, nOps, before, blockedBy, known>>
    /\ Track(lastGet)

\* create_ticket goes on to store.get_ticket(&ticket_id): self.tickets.read().await
CreateGet(t) ==
    /\ pc[t] = "get_lock"
    /\ AcquireMap(t, "R")
    /\ pc' = [pc EXCEPT ![t] = "get_lookup"]
    /\ UNCHANGED <<tickets, slotLock, issued, cur, tid, out, result, http, nOps,
                   returned, writer, before, known>>
    /\ Track(lastGet)

\* ------------------------------------------------ handlers::get_ticket
\* Parses the id, then store.get_ticket: self.tickets.read().await
StartGet(t, limit, ids) ==
    /\ CanStart(t, limit)
    /\ \E id \in ids :
         /\ cur' = [cur EXCEPT ![t] = [NoRequest EXCEPT !.op = "get"]]
         /\ tid' = [tid EXCEPT ![t] = id]
         /\ IF ParsesAsUuid(id)
            THEN /\ mapLock' = Acquire(mapLock, t, "R")
                 /\ blockedBy' = [blockedBy EXCEPT ![t] = WaitsFor(mapLock, "R")]
                 /\ pc' = [pc EXCEPT ![t] = "get_lookup"]
                 /\ http' = [http EXCEPT ![t] = 0]
            ELSE /\ pc' = [pc EXCEPT ![t] = "done"]
                 /\ http' = [http EXCEPT ![t] = BadRequest]
                 /\ blockedBy' = [blockedBy EXCEPT ![t] = {}]
                 /\ mapLock' = mapLock
    /\ Begin(t)
    /\ UNCHANGED <<tickets, slotLock, issued, returned, writer>>
    /\ Track(lastGet)

\* get_ticket: match tickets.get(id); Some => ticket_arc.read().await
GetLookup(t) ==
    /\ pc[t] = "get_lookup"
    /\ HoldsIn(mapLock, t, "R")
    /\ IF Found(tid[t])
       THEN /\ AcquireSlot(t, tid[t], "R")
            /\ pc' = [pc EXCEPT ![t] = "get_read"]
            /\ result' = result
       ELSE /\ result' = [result EXCEPT ![t] = TicketNotFound(tid[t])]
            /\ pc' = [pc EXCEPT ![t] = "get_unlock"]
            /\ UNCHANGED <<slotLock, blockedBy>>
    /\ UNCHANGED <<tickets, mapLock, issued, cur, tid, out, http, nOps, returned,
                   writer, before, known>>
    /\ Track(lastGet)

\* get_ticket: Ok(ticket.clone()); the ticket's read guard is dropped.
GetRead(t) ==
    /\ pc[t] = "get_read"
    /\ HoldsIn(slotLock[tid[t]], t, "R")
    /\ result' = [result EXCEPT ![t] = OkTicket(Clone(tickets[tid[t]]))]
    /\ ReleaseSlot(t, tid[t])
    /\ pc' = [pc EXCEPT ![t] = "get_unlock"]
    /\ UNCHANGED <<tickets, mapLock, issued, cur, tid, out, http, nOps, returned,
                   writer, before, blockedBy, known>>
    /\ Track([lastGet EXCEPT ![tid[t]] = result'[t].ticket])

\* get_ticket returns: the map's read guard is dropped; the handler (create_ticket
\* or get_ticket) turns the answer into its StatusCode.
GetUnlock(t) ==
    /\ pc[t] = "get_unlock"
    /\ ReleaseMap(t)
    /\ http' = [http EXCEPT ![t] = IF cur[t].op = "create" THEN CreateStatus(result[t])
                                   ELSE GetStatus(result[t])]
    /\ pc' = [pc EXCEPT ![t] = "done"]
    /\ UNCHANGED <<tickets, slotLock, issued, cur, tid, out, result, nOps,
                   returned, writer, before, blockedBy, known>>
    /\ Track(lastGet)

\* ---------------------------------------------- handlers::patch_ticket
\* Parses the id, then store.patch_ticket: self.tickets.read().await
StartPatch(t, limit, ids, patches) ==
    /\ CanStart(t, limit)
    /\ \E id \in ids, p \in patches :
         /\ tid' = [tid EXCEPT ![t] = id]
         /\ cur' = [cur EXCEPT ![t] = [op |-> "patch", title |-> p.title,
                                       description |-> p.description, status |-> p.status]]
         /\ IF ParsesAsUuid(id)
            THEN /\ mapLock' = Acquire(mapLock, t, "R")
                 /\ blockedBy' = [blockedBy EXCEPT ![t] = WaitsFor(mapLock, "R")]
                 /\ pc' = [pc EXCEPT ![t] = "patch_lookup"]
                 /\ http' = [http EXCEPT ![t] = 0]
            ELSE /\ pc' = [pc EXCEPT ![t] = "done"]
                 /\ http' = [http EXCEPT ![t] = BadRequest]
                 /\ blockedBy' = [blockedBy EXCEPT ![t] = {}]
                 /\ mapLock' = mapLock
    /\ Begin(t)
    /\ UNCHANGED <<tickets, slotLock, issued, returned, writer>>
    /\ Track(lastGet)

\* patch_ticket: match tickets.get(id); Some => ticket_arc.write().await
PatchLookup(t) ==
    /\ pc[t] = "patch_lookup"
    /\ HoldsIn(mapLock, t, "R")
    /\ IF Found(tid[t])
       THEN /\ AcquireSlot(t, tid[t], "W")
            /\ pc' = [pc EXCEPT ![t] = "patch_title"]
            /\ result' = result
       ELSE /\ result' = [result EXCEPT ![t] = TicketNotFound(tid[t])]
            /\ pc' = [pc EXCEPT ![t] = "patch_unlock"]
            /\ UNCHANGED <<slotLock, blockedBy>>
    /\ UNCHANGED <<tickets, mapLock, issued, cur, tid, out, http, nOps, returned,
                   writer, before, known>>
    /\ Track(lastGet)

\* patch_ticket: if let Some(title_str) = patch.title
PatchTitle(t) ==
    /\ pc[t] = "patch_title"
    /\ HoldsIn(slotLock[tid[t]], t, "W")
    /\ before' = [before EXCEPT ![t] = Some(tickets[tid[t]])]
    /\ IF cur[t].title = None
       THEN /\ pc' = [pc EXCEPT ![t] = "patch_description"]
            /\ UNCHANGED <<tickets, writer, result>>
       ELSE LET v == TicketTitleNew(cur[t].title[1]) IN
            IF v.ok
            THEN /\ tickets' = [tickets EXCEPT ![tid[t]] = ApplyTitle(@, v.val)]
                 /\ writer' = [writer EXCEPT ![tid[t]].title = t]
                 /\ pc' = [pc EXCEPT ![t] = "patch_description"]
                 /\ result' = result
            ELSE /\ result' = [result EXCEPT ![t] = InvalidField("title")]
                 /\ pc' = [pc EXCEPT ![t] = "patch_drop"]
                 /\ UNCHANGED <<tickets, writer>>
    /\ UNCHANGED <<mapLock, slotLock, issued, cur, tid, out, http, nOps, returned,
                   blockedBy, known>>
    /\ Track([lastGet EXCEPT ![tid[t]] = None])

\* patch_ticket: if let Some(description_str) = patch.description
PatchDescription(t) ==
    /\ pc[t] = "patch_description"
    /\ IF cur[t].description = None
       THEN /\ pc' = [pc EXCEPT ![t] = "patch_status"]
            /\ UNCHANGED <<tickets, writer, result>>
       ELSE LET v == TicketDescriptionNew(cur[t].description[1]) IN
            IF v.ok
            THEN /\ tickets' = [tickets EXCEPT ![tid[t]] = ApplyDescription(@, v.val)]
                 /\ writer' = [writer EXCEPT ![tid[t]].description = t]
                 /\ pc' = [pc EXCEPT ![t] = "patch_status"]
                 /\ result' = result
            ELSE /\ result' = [result EXCEPT ![t] = InvalidField("description")]
                 /\ pc' = [pc EXCEPT ![t] = "patch_drop"]
                 /\ UNCHANGED <<tickets, writer>>
    /\ UNCHANGED <<mapLock, slotLock, issued, cur, tid, out, http, nOps, returned,
                   before, blockedBy, known>>
    /\ Track(lastGet)

\* patch_ticket: if let Some(status) = patch.status; Ok(ticket.clone())
PatchStatusField(t) ==
    /\ pc[t] = "patch_status"
    /\ LET tk == IF cur[t].status = None THEN tickets[tid[t]]
                 ELSE ApplyStatus(tickets[tid[t]], cur[t].status[1]) IN
         /\ tickets' = [tickets EXCEPT ![tid[t]] = tk]
         /\ result' = [result EXCEPT ![t] = OkTicket(Clone(tk))]
    /\ writer' = IF cur[t].status = None THEN writer
                 ELSE [writer EXCEPT ![tid[t]].status = t]
    /\ pc' = [pc EXCEPT ![t] = "patch_drop"]
    /\ UNCHANGED <<mapLock, slotLock, issued, cur, tid, out, http, nOps, returned,
                   before, blockedBy, known>>
    /\ Track(lastGet)

\* patch_ticket returns: first the ticket's write guard is dropped ...
PatchDrop(t) ==
    /\ pc[t] = "patch_drop"
    /\ ReleaseSlot(t, tid[t])
    /\ pc' = [pc EXCEPT ![t] = "patch_unlock"]
    /\ UNCHANGED <<tickets, mapLock, issued, cur, tid, out, result, http, nOps,
                   returned, writer, before, blockedBy, known>>
    /\ Track(lastGet)

\* ... then the map's read guard; the handler turns the answer into its StatusCode.
PatchUnlock(t) ==
    /\ pc[t] = "patch_unlock"
    /\ ReleaseMap(t)
    /\ http' = [http EXCEPT ![t] = PatchStatus(result[t])]
    /\ pc' = [pc EXCEPT ![t] = "done"]
    /\ UNCHANGED <<tickets, slotLock, issued, cur, tid, out, result, nOps,
                   returned, writer, before, blockedBy, known>>
    /\ Track(lastGet)

\* ---------------------------------------------- handlers::list_tickets
\* store.list_tickets: self.tickets.read().await
StartList(t, limit) ==
    /\ CanStart(t, limit)
    /\ cur' = [cur EXCEPT ![t] = [NoRequest EXCEPT !.op = "list"]]
    /\ tid' = [tid EXCEPT ![t] = BadId]
    /\ mapLock' = Acquire(mapLock, t, "R")
    /\ blockedBy' = [blockedBy EXCEPT ![t] = WaitsFor(mapLock, "R")]
    /\ pc' = [pc EXCEPT ![t] = "list_next"]
    /\ http' = [http EXCEPT ![t] = 0]
    /\ Begin(t)
    /\ UNCHANGED <<tickets, slotLock, issued, returned, writer>>
    /\ Track(lastGet)

\* list_tickets: the slots of tickets.values() the loop has not come to yet.
UnvisitedFirstOnly(t) == IF out[t] = <<>> THEN DOMAIN tickets ELSE {}

Unvisited(t) == DOMAIN tickets \ {out[t][i].id : i \in DOMAIN out[t]}

\* list_tickets: the loop over tickets.values() takes the next slot, in the
\* HashMap's own order, and asks for its read lock; with no slot left the call
\* returns result.  The map cannot change while this task holds its read lock.
ListNext(t) ==
    /\ pc[t] = "list_next"
    /\ HoldsIn(mapLock, t, "R")
    /\ LET left == Unvisited(t) IN
       IF left = {}
       THEN /\ pc' = [pc EXCEPT ![t] = "list_unlock"]
            /\ UNCHANGED <<tid, slotLock, blockedBy>>
       ELSE \E id \in left :
              /\ tid' = [tid EXCEPT ![t] = id]
              /\ AcquireSlot(t, id, "R")
              /\ pc' = [pc EXCEPT ![t] = "list_read"]
    /\ UNCHANGED <<tickets, mapLock, issued, cur, out, result, http, nOps, returned,
                   writer, before, known>>
    /\ Track(lastGet)

\* list_tickets: result.push(ticket.clone()); the read guard is dropped.
ListRead(t) ==
    /\ pc[t] = "list_read"
    /\ HoldsIn(slotLock[tid[t]], t, "R")
    /\ out' = [out EXCEPT ![t] = Append(@, Clone(tickets[tid[t]]))]
    /\ ReleaseSlot(t, tid[t])
    /\ pc' = [pc EXCEPT ![t] = "list_next"]
    /\ UNCHANGED <<tickets, mapLock, issued, cur, tid, result, http, nOps,
                   returned, writer, before, blockedBy, known>>
    /\ Track(lastGet)

\* list_tickets returns: the map's read guard is dropped.
ListUnlock(t) ==
    /\ pc[t] = "list_unlock"
    /\ ReleaseMap(t)
    /\ result' = [result EXCEPT ![t] = [NoResult EXCEPT !.kind = "List"]]
    /\ http' = [http EXCEPT ![t] = ListStatus]
    /\ pc' = [pc EXCEPT ![t] = "done"]
    /\ UNCHANGED <<tickets, slotLock, issued, cur, tid, out, nOps, returned,
                   writer, before, blockedBy, known>>
    /\ Track(lastGet)

\* What a task does once its request is taken: the steps of the store's calls.
Step(t) ==
    \/ AddInsert(t) \/ CreateGet(t) \/ GetLookup(t) \/ GetRead(t) \/ GetUnlock(t)
    \/ PatchLookup(t) \/ PatchTitle(t) \/ PatchDescription(t) \/ PatchStatusField(t)
    \/ PatchDrop(t) \/ PatchUnlock(t)
    \/ ListNext(t) \/ ListRead(t) \/ ListUnlock(t)

\* ------------------------------------------------------ specifications
TargetIds == Ids \cup {BadId}

Clients == 1..MaxClients

\* Spec: MaxClients tasks serve any MaxOps requests out of the inputs above.
Next ==
    \E t \in Clients :
        \/ StartCreate(t, MaxOps, CreateInputs)
        \/ AddInsert(t)
        \/ CreateGet(t)
        \/ StartGet(t, MaxOps, TargetIds)
        \/ GetLookup(t)
        \/ GetRead(t)
        \/ GetUnlock(t)
        \/ StartPatch(t, MaxOps, TargetIds, PatchInputs)
        \/ PatchLookup(t)
        \/ PatchTitle(t)
        \/ PatchDescription(t)
        \/ PatchStatusField(t)
        \/ PatchDrop(t)
        \/ PatchUnlock(t)
        \/ StartList(t, MaxOps)
        \/ ListNext(t)
        \/ ListRead(t)
        \/ ListUnlock(t)

Spec == Init /\ [][Next]_vars

\* SpecContend: every task of the runtime serves requests, one request more,
\* out of fewer inputs: one valid draft, reads of the first ticket, status
\* patches of the first two.
ContendOps == MaxOps + 1
ContendCreates == {[title |-> TitleOk, description |-> DescriptionEmpty]}
ContendReads == {1}
ContendWrites == {1, 2}
ContendPatches == {[title |-> None, description |-> None, status |-> Some("InProgress")]}

NextContend ==
    \E t \in Tasks :
        \/ StartCreate(t, ContendOps, ContendCreates)
        \/ AddInsert(t)
        \/ CreateGet(t)
        \/ StartGet(t, ContendOps, ContendReads)
        \/ GetLookup(t)
        \/ GetRead(t)
        \/ GetUnlock(t)
        \/ StartPatch(t, ContendOps, ContendWrites, ContendPatches)
        \/ PatchLookup(t)
        \/ PatchTitle(t)
        \/ PatchDescription(t)
        \/ PatchStatusField(t)
        \/ PatchDrop(t)
        \/ PatchUnlock(t)

SpecContend == Init /\ [][NextContend]_vars

\* SpecValidate: TicketTitle::new and TicketDescription::new on their own, each
\* applied once to a string of at most MaxRuns runs whose lengths lie around
\* the two limits, in one- and two-byte characters and white space.
Chars == {"a", " ", "E"}
RunLengths == {1, 2, 49, 50, 51, 99, 100, 101, 499, 500, 501, 999, 1000, 1001}

StringsOf(n) ==
    {s \in [1..n -> Chars \X RunLengths] : \A i \in 1..(n - 1) : s[i][1] # s[i + 1][1]}

Strings == UNION {StringsOf(n) : n \in 0..MaxRuns}

storeVars == <<tickets, mapLock, slotLock, issued, pc, cur, tid, out, result,
               http, nOps, returned, writer, before, blockedBy, known, lastGet, seen>>

InitValidate == InitStore /\ input \in Strings

ValidateTitle ==
    /\ verdict.fn = "none"
    /\ verdict' = [fn |-> "title", r |-> TicketTitleNew(input)]
    /\ UNCHANGED <<storeVars, input>>

ValidateDescription ==
    /\ verdict.fn = "none"
    /\ verdict' = [fn |-> "description", r |-> TicketDescriptionNew(input)]
    /\ UNCHANGED <<storeVars, input>>

NextValidate == ValidateTitle \/ ValidateDescription

SpecValidate == InitValidate /\ [][NextValidate]_vars

\* SpecLive: every task of the runtime serves requests of all four kinds on the
\* first ticket, and the runtime goes on polling every task that can run: a
\* task that can take a step takes it in the end (tokio wakes a task when its
\* lock is granted, and a granted lock stays granted until the task runs).
LiveOps == MaxOps
LiveIds == {1}

NextLive ==
    \E t \in Tasks :
        \/ StartCreate(t, LiveOps, ContendCreates)
        \/ AddInsert(t)
        \/ CreateGet(t)
        \/ StartGet(t, LiveOps, LiveIds)
        \/ GetLookup(t)
        \/ GetRead(t)
        \/ GetUnlock(t)
        \/ StartPatch(t, LiveOps, LiveIds, ContendPatches)
        \/ PatchLookup(t)
        \/ PatchTitle(t)
        \/ PatchDescription(t)
        \/ PatchStatusField(t)
        \/ PatchDrop(t)
        \/ PatchUnlock(t)
        \/ StartList(t, LiveOps)
        \/ ListNext(t)
        \/ ListRead(t)
        \/ ListUnlock(t)

Fairness == \A t \in Tasks : WF_vars(Step(t))

SpecLive == Init /\ [][NextLive]_vars /\ Fairness

\* SpecListing: the clients add tickets, list them and patch the status of the
\* first two, two requests more than in Spec.
ListingOps == MaxOps + 2

NextListing ==
    \E t \in Clients :
        \/ StartCreate(t, ListingOps, ContendCreates)
        \/ AddInsert(t)
        \/ CreateGet(t)
        \/ GetLookup(t)
        \/ GetRead(t)
        \/ GetUnlock(t)
        \/ StartPatch(t, ListingOps, ContendWrites, ContendPatches)
        \/ PatchLookup(t)
        \/ PatchTitle(t)
        \/ PatchDescription(t)
        \/ PatchStatusField(t)
        \/ PatchDrop(t)
        \/ PatchUnlock(t)
        \/ StartList(t, ListingOps)
        \/ ListNext(t)
        \/ ListRead(t)
        \/ ListUnlock(t)

SpecListing == Init /\ [][NextListing]_vars

\* ------------------------------------------------------------- claims
\* The bounds of spec.md section 3, stated on their own.
TitleWithinBounds(s) == Trim(s) # <<>> /\ ByteLen(s) <= 100
DescriptionWithinBounds(s) == ByteLen(s) <= 1000
WithinBounds(tk) ==
    TitleWithinBounds(tk.title) /\ DescriptionWithinBounds(tk.description)

\* The task runs patch_ticket on an existing ticket and has finished applying the
\* patch; it still holds the ticket's write lock.
PatchApplied(t) == pc[t] = "patch_drop" /\ before[t] # None

\* C1: every ticket in the store, and every ticket get_ticket, patch_ticket or
\* list_tickets has returned, has a title that is non-empty once trimmed and at
\* most 100 long, and a description at most 1000 long.
C1_TicketsWithinBounds ==
    /\ \A i \in DOMAIN tickets : WithinBounds(tickets[i])
    /\ \A t \in Tasks :
         /\ result[t].kind = "Ok" => WithinBounds(result[t].ticket[1])
         /\ \A k \in DOMAIN out[t] : WithinBounds(out[t][k])

\* A get_ticket has returned a ticket whose title a patch_ticket set to the
\* longest valid title, after another request was turned down.
C1_Witness ==
    \E t \in Tasks :
        /\ pc[t] = "done" /\ cur[t].op = "get" /\ result[t].kind = "Ok"
        /\ result[t].ticket[1].title = TitleMax
        /\ writer[tid[t]].title # 0
        /\ \E u \in Tasks : pc[u] = "done" /\ http[u] = 400

\* C2: a patch with a valid title and a description over 1000, applied to an
\* existing ticket, answers InvalidField and leaves the ticket with the new title
\* and the description and status it had, whether or not it carries a status.
C2_PartialPatch ==
    \A t \in Tasks :
        ( /\ PatchApplied(t)
          /\ cur[t].title # None /\ TitleWithinBounds(cur[t].title[1])
          /\ cur[t].description # None
          /\ ~DescriptionWithinBounds(cur[t].description[1]) )
        => /\ result[t].kind = "InvalidField"
           /\ tickets[tid[t]].title = cur[t].title[1]
           /\ tickets[tid[t]].description = before[t][1].description
           /\ tickets[tid[t]].status = before[t][1].status
           /\ tickets[tid[t]].id = before[t][1].id

\* Such a patch, carrying a status too, has changed the title of a ticket.
C2_Witness ==
    \E t \in Tasks :
        /\ PatchApplied(t)
        /\ cur[t].title = Some(TitleMax)
        /\ cur[t].description = Some(DescriptionLong)
        /\ cur[t].status = Some("Done")
        /\ before[t][1].title = TitleOk
        /\ before[t][1].status = "ToDo"
        /\ tickets[tid[t]].title = TitleMax
        /\ result[t].kind = "InvalidField"

\* C3: a patch with an invalid title (empty once trimmed, or over 100), applied
\* to an existing ticket, answers InvalidField and leaves the whole ticket as it
\* was, whatever description and status it carries.
C3_InvalidTitlePatch ==
    \A t \in Tasks :
        ( /\ PatchApplied(t)
          /\ cur[t].title # None /\ ~TitleWithinBounds(cur[t].title[1]) )
        => /\ result[t].kind = "InvalidField"
           /\ tickets[tid[t]] = before[t][1]

\* A patch with a blank title, carrying a valid description and a status that
\* differ from the ticket's, has been turned down.
C3_Witness ==
    \E t \in Tasks :
        /\ PatchApplied(t)
        /\ cur[t].title = Some(TitleBlank)
        /\ cur[t].description = Some(DescriptionMax)
        /\ cur[t].status = Some("Done")
        /\ tickets[tid[t]].description = DescriptionEmpty
        /\ tickets[tid[t]].status = "ToDo"
        /\ result[t].kind = "InvalidField"

\* The task's request was a patch of exactly one field that patch_ticket
\* answered with Ok.
PatchedOnly(t, f) ==
    /\ pc[t] = "done" /\ cur[t].op = "patch" /\ result[t].kind = "Ok"
    /\ cur[t][f] # None
    /\ \A g \in {"title", "description", "status"} \ {f} : cur[t][g] = None

\* C4: when a title-only patch and a description-only patch of the same ticket
\* have both succeeded, and theirs are the last assignments of the two fields,
\* the ticket has the title of the one and the description of the other.
C4_NoLostUpdate ==
    \A t1, t2 \in Tasks :
        ( /\ PatchedOnly(t1, "title") /\ PatchedOnly(t2, "description")
          /\ tid[t1] = tid[t2]
          /\ writer[tid[t1]].title = t1 /\ writer[tid[t1]].description = t2 )
        => /\ tickets[tid[t1]].title = cur[t1].title[1]
           /\ tickets[tid[t1]].description = cur[t2].description[1]

\* The two patches ran at the same time: one had to wait for the other's
\* patch_ticket to give up the ticket's lock, and both changed the ticket.
C4_Witness ==
    \E t1, t2 \in Tasks :
        /\ PatchedOnly(t1, "title") /\ PatchedOnly(t2, "description")
        /\ tid[t1] = tid[t2]
        /\ \/ <<t1, "patch_ticket">> \in blockedBy[t2]
           \/ <<t2, "patch_ticket">> \in blockedBy[t1]
        /\ tickets[tid[t1]].title = TitleMax
        /\ tickets[tid[t1]].description = DescriptionMax
        /\ before[t1][1].title = TitleOk
        /\ before[t2][1].description = DescriptionEmpty

\* C5: no id is returned by two add_ticket calls, and a list_tickets returns a
\* ticket for every id that add_ticket had returned when the listing began.
C5_AddsDistinctAndListed ==
    /\ \A i \in Ids : returned[i] <= 1
    /\ \A t \in Tasks :
         (pc[t] = "done" /\ cur[t].op = "list")
         => known[t] \subseteq {out[t][k].id : k \in DOMAIN out[t]}

\* Two add_ticket calls ran at the same time (one waited for the other's write
\* lock), and a later list_tickets returned both their tickets.
C5_Witness ==
    \E t, u \in Tasks :
        /\ pc[t] = "done" /\ cur[t].op = "list"
        /\ Cardinality(known[t]) = 2
        /\ Len(out[t]) = 2
        /\ pc[u] = "done" /\ cur[u].op = "create"
        /\ <<t, "add_ticket">> \in blockedBy[u]

\* C6: the holder of a ticket's write lock is the only holder of that lock.
C6_WriterExcludes ==
    \A i \in Ids : \A h \in slotLock[i].holders :
        h[2] = "W" => slotLock[i].holders = {h}

\* Two readers, a get_ticket and a list_tickets, hold the same ticket's lock at
\* the same time.
C6_Witness ==
    \E i \in Ids, t, u \in Tasks :
        /\ t # u
        /\ HoldsIn(slotLock[i], t, "R") /\ HoldsIn(slotLock[i], u, "R")
        /\ pc[t] = "get_read" /\ pc[u] = "list_read"

\* A patch_ticket holds a ticket's write lock while a get_ticket waits for it.
C6_WriterSeen ==
    \E i \in Ids, t, u \in Tasks :
        /\ HoldsIn(slotLock[i], t, "W") /\ Waits(slotLock[i], u)
        /\ pc[t] = "patch_description" /\ pc[u] = "get_read"

\* The task holds, or waits for, the lock of some ticket.
AtTicketLock(t) == \E i \in Ids : Holds(slotLock[i], t) \/ Waits(slotLock[i], t)

\* C7: no task holds the lock of the id -> slot map while it waits for or holds
\* the lock of a ticket.
C7_MapLockNotHeldAcrossTicket ==
    \A t \in Tasks : Holds(mapLock, t) => ~AtTicketLock(t)

\* C7, its consequence: an add_ticket that waits for the map's write lock waits
\* for no call that is at a ticket's lock.
C7_AddNeverWaitsForTicket ==
    \A t, u \in Tasks :
        (pc[t] = "add_insert" /\ Waits(mapLock, t) /\ Holds(mapLock, u))
        => ~AtTicketLock(u)

\* The task runs get_ticket or patch_ticket on the existing ticket i.
CallOn(t, i) ==
    /\ CallAt(pc[t]) \in {"get_ticket", "patch_ticket"}
    /\ tid[t] = i
    /\ i \in DOMAIN tickets

\* C8: a get_ticket or patch_ticket on ticket A never waits for a lock held by
\* a get_ticket or patch_ticket that is at the lock of another ticket B.
C8_OtherTicketNeverBlocks ==
    \A t, u \in Tasks : \A a, b \in Ids :
        ( /\ a # b
          /\ CallOn(t, a) /\ CallOn(u, b)
          /\ AtTicketLock(u) )
        => /\ ~(Waits(mapLock, t) /\ Holds(mapLock, u))
           /\ ~(Waits(slotLock[a], t) /\ Holds(slotLock[a], u))

\* Two patch_ticket calls hold the write locks of two tickets at the same time.
C8_TwoWriters ==
    \E t, u \in Tasks : \E a, b \in Ids :
        /\ a # b
        /\ HoldsIn(slotLock[a], t, "W") /\ HoldsIn(slotLock[b], u, "W")

\* C9: a get_ticket or patch_ticket on an id that no add_ticket has returned
\* changes nothing in the store and ends with TicketNotFound of that id (404).
C9_Step ==
    \A t \in Tasks :
        ( /\ pc[t] \in {"get_lookup", "get_unlock", "patch_lookup", "patch_unlock"}
          /\ pc'[t] # pc[t]
          /\ cur[t].op \in {"get", "patch"}
          /\ returned[tid[t]] = 0 )
        => /\ tickets' = tickets
           /\ pc'[t] \in {"get_unlock", "patch_unlock", "done"}
           /\ result'[t].kind = "TicketNotFound"
           /\ result'[t].id = tid[t]
           /\ pc'[t] = "done" => http'[t] = 404

C9_UnknownIdNotFound == [][C9_Step]_vars

\* A patch_ticket with a valid patch, and a get_ticket, each on an id that was
\* never inserted, have ended with TicketNotFound while the store held a ticket.
C9_Witness ==
    \E t, u \in Tasks :
        /\ pc[t] = "done" /\ cur[t].op = "patch" /\ cur[t].title = Some(TitleMax)
        /\ pc[u] = "done" /\ cur[u].op = "get"
        /\ result[t].kind = "TicketNotFound" /\ result[u].kind = "TicketNotFound"
        /\ returned[tid[t]] = 0 /\ returned[tid[u]] = 0
        /\ DOMAIN tickets # {}

\* C10: the get_ticket that create_ticket makes on the id add_ticket returned
\* gives, as long as no patch_ticket has assigned a field of that ticket, a
\* ticket with that id, the draft's title and description, and status ToDo.
C10_CreateRoundTrip ==
    \A t \in Tasks :
        ( /\ cur[t].op = "create"
          /\ pc[t] \in {"get_unlock", "done"}
          /\ tid[t] # BadId
          /\ writer[tid[t]] = [title |-> 0, description |-> 0, status |-> 0] )
        => /\ result[t].kind = "Ok"
           /\ result[t].ticket[1].id = tid[t]
           /\ result[t].ticket[1].title = cur[t].title[1]
           /\ result[t].ticket[1].description = cur[t].description[1]
           /\ result[t].ticket[1].status = "ToDo"

\* A create_ticket got its draft back, at the limits of both fields, while a
\* patch_ticket had changed another ticket.
C10_Witness ==
    \E t, u \in Tasks :
        /\ cur[t].op = "create" /\ pc[t] = "done" /\ http[t] = 201
        /\ result[t].ticket[1].title = TitleMax
        /\ result[t].ticket[1].description = DescriptionMax
        /\ result[t].ticket[1].status = "ToDo"
        /\ cur[u].op = "patch" /\ tid[u] # tid[t] /\ result[u].kind = "Ok"

\* The fields of a ticket a patch can carry.
PatchFields == {"title", "description", "status"}

\* When a patch_ticket has answered Ok, each field of the ticket is the value
\* the patch carried, or else the value the ticket had, and the answer is the
\* ticket as stored.
C11_Applied ==
    \A t \in Tasks :
        (PatchApplied(t) /\ result[t].kind = "Ok")
        => /\ \A f \in PatchFields :
                tickets[tid[t]][f] = IF cur[t][f] # None THEN cur[t][f][1]
                                     ELSE before[t][1][f]
           /\ tickets[tid[t]].id = before[t][1].id
           /\ tickets[tid[t]].id = tid[t]
           /\ result[t].ticket[1] = tickets[tid[t]]

\* A step of patch_ticket under the ticket's write lock keeps the map's keys,
\* the ticket's id and every other ticket.
C11_Frame ==
    \A t \in Tasks :
        (pc[t] \in {"patch_title", "patch_description", "patch_status"} /\ pc'[t] # pc[t])
        => /\ DOMAIN tickets' = DOMAIN tickets
           /\ tickets'[tid[t]].id = tid[t]
           /\ \A i \in DOMAIN tickets \ {tid[t]} : tickets'[i] = tickets[i]

\* C11: a successful patch_ticket changes exactly the fields its patch carries,
\* to the values carried; the ticket's id, the map's keys and every other ticket
\* stay as they were, and the ticket returned is the ticket stored.
C11_PatchChangesOnlySupplied == []C11_Applied /\ [][C11_Frame]_vars

\* A status-only patch has succeeded on a ticket whose title and description are
\* at their limits, while the store holds another ticket.
C11_Witness ==
    \E t \in Tasks :
        /\ PatchApplied(t) /\ result[t].kind = "Ok"
        /\ cur[t].title = None /\ cur[t].description = None
        /\ cur[t].status = Some("InProgress")
        /\ before[t][1].status = "ToDo"
        /\ tickets[tid[t]].title = TitleMax
        /\ tickets[tid[t]].description = DescriptionMax
        /\ tickets[tid[t]].status = "InProgress"
        /\ DOMAIN tickets # {tid[t]}

\* The task's add_ticket inserts in this step.
AddInserts(t) == pc[t] = "add_insert" /\ pc'[t] # pc[t]

C12_Step ==
    /\ DOMAIN tickets \subseteq DOMAIN tickets'
    /\ DOMAIN tickets' # DOMAIN tickets => \E t \in Tasks : AddInserts(t)
    /\ \A t \in Tasks :
         /\ AddInserts(t) => /\ tid[t] \notin DOMAIN tickets
                             /\ DOMAIN tickets' = DOMAIN tickets \cup {tid[t]}
         /\ ( /\ cur[t].op \in {"get", "create"}
              /\ result[t].kind # "TicketNotFound"
              /\ result'[t].kind = "TicketNotFound" )
            => /\ tid[t] \notin DOMAIN tickets
               /\ tid[t] \notin DOMAIN tickets'

\* C12: a step never takes an id out of the store; only add_ticket's insert
\* changes the set of ids, adding exactly one id that was not there; and a
\* get_ticket answers TicketNotFound only for an id that is not in the store.
C12_IdsOnlyGrow == [][C12_Step]_vars

\* A get_ticket found the first ticket after a second one had been added.
C12_Witness ==
    \E t \in Tasks :
        /\ pc[t] = "done" /\ cur[t].op = "get" /\ http[t] = 200
        /\ tid[t] = 1
        /\ DOMAIN tickets = {1, 2}
        /\ returned[1] = 1 /\ returned[2] = 1

\* The ids of the tickets a list_tickets has collected.
ListedIds(t) == {out[t][k].id : k \in DOMAIN out[t]}

\* The task's list_tickets has read every slot and is about to return.
ListEnds(t) == cur[t].op = "list" /\ pc[t] = "list_unlock"

\* C13 as stated: the ids list_tickets returns are the store's ids when the
\* call was made and when it returns.
C13_ListEqualsStoreAtCall ==
    \A t \in Tasks :
        ListEnds(t) => /\ ListedIds(t) = known[t]
                       /\ ListedIds(t) = DOMAIN tickets

C13_Listed ==
    \A t \in Tasks :
        /\ ListEnds(t) => /\ ListedIds(t) = DOMAIN tickets
                          /\ Len(out[t]) = Cardinality(DOMAIN tickets)
                          /\ known[t] \subseteq ListedIds(t)
                          /\ DOMAIN tickets = {} => out[t] = <<>>
        /\ (cur[t].op = "list" /\ pc[t] = "done")
           => /\ result[t].kind = "List"
              /\ http[t] = 200

C13_Stable ==
    \A t \in Tasks :
        (cur[t].op = "list" /\ HoldsIn(mapLock, t, "R"))
        => DOMAIN tickets' = DOMAIN tickets

\* C13, amended: list_tickets never fails and returns exactly one ticket for
\* each id in the store and no other (none for an empty store); the store's ids
\* do not change from the moment the call holds the map's read lock until it
\* returns, and the ids in the store when the call was made are among them.
C13_ListReturnsStoreIds == []C13_Listed /\ [][C13_Stable]_vars

\* A list_tickets called while an add_ticket held the map's write lock returns
\* two tickets, one more than the store held when it was called.
C13_Witness ==
    \E t \in Tasks :
        /\ ListEnds(t)
        /\ Len(out[t]) = 2
        /\ Cardinality(known[t]) = 1
        /\ \E u \in Tasks : <<u, "add_ticket">> \in blockedBy[t]

\* The positions of get_ticket.
GetPositions == {"get_lookup", "get_read", "get_unlock"}

C14_Step ==
    \A t \in Tasks :
        /\ (pc[t] \in GetPositions /\ pc'[t] # pc[t]) => tickets' = tickets
        /\ ( /\ pc[t] = "get_read" /\ pc'[t] = "get_unlock"
             /\ lastGet[tid[t]] # None )
           => result'[t].ticket = lastGet[tid[t]]

\* C14: no step of get_ticket changes the store, and a get_ticket returns what
\* the last get_ticket of the same id returned when no patch_ticket has held
\* that ticket's write lock since.
C14_GetIdempotent == [][C14_Step]_vars

\* A get_ticket returned the first ticket as create_ticket's own get_ticket had
\* returned it, a second ticket having been added in between.
C14_Witness ==
    \E t \in Tasks :
        /\ pc[t] = "done" /\ cur[t].op = "get" /\ result[t].kind = "Ok"
        /\ tid[t] = 1
        /\ lastGet[1] = result[t].ticket
        /\ result[t].ticket[1].title = TitleOk
        /\ 2 \in DOMAIN tickets /\ tickets[2].title = TitleMax

\* C15 as stated: TicketTitle::new fails with the too-long reason exactly when
\* the string is longer than 100.
C15_TooLongIffOver100 ==
    verdict.fn = "title"
    => ((~verdict.r.ok /\ verdict.r.err = TitleTooLong) <=> ByteLen(input) > 100)

\* C15, amended: TicketTitle::new fails with the too-long reason exactly when
\* the string is longer than 100 and not empty once trimmed; such a string of
\* length 100 is accepted, one of length 101 fails with that reason.
C15_TooLongIffOver100AndNotBlank ==
    verdict.fn = "title"
    => /\ (~verdict.r.ok /\ verdict.r.err = TitleTooLong)
          <=> (ByteLen(input) > 100 /\ Trim(input) # <<>>)
       /\ (ByteLen(input) = 100 /\ Trim(input) # <<>>) => verdict.r.ok
       /\ (ByteLen(input) = 101 /\ Trim(input) # <<>>)
          => (~verdict.r.ok /\ verdict.r.err = TitleTooLong)

\* A title of 101 bytes in 51 characters, fifty of them two bytes wide, has
\* been turned down as too long.
C15_Witness ==
    /\ verdict.fn = "title"
    /\ input = << <<"a", 1>>, <<"E", 50>> >>
    /\ ~verdict.r.ok /\ verdict.r.err = TitleTooLong

\* C16: TicketTitle::new accepts a string exactly when it is not empty once
\* trimmed and at most 100 long, and then keeps it as given, untrimmed; the
\* empty string and white space alone fail with the empty-title reason.
C16_TitleAcceptedUntrimmed ==
    verdict.fn = "title"
    => /\ verdict.r.ok <=> (Trim(input) # <<>> /\ ByteLen(input) <= 100)
       /\ verdict.r.ok => verdict.r.val = input
       /\ Trim(input) = <<>> => (~verdict.r.ok /\ verdict.r.err = EmptyTitle)

\* A title of 100 bytes with white space at both ends has been accepted and
\* kept with its white space.
C16_Witness ==
    /\ verdict.fn = "title"
    /\ input = << <<" ", 1>>, <<"a", 50>>, <<" ", 49>> >>
    /\ verdict.r.ok /\ verdict.r.val = input
    /\ Trim(verdict.r.val) # verdict.r.val

\* C17: TicketDescription::new fails, with the too-long reason, exactly when the
\* string is longer than 1000; the empty string and a string of 1000 are
\* accepted and kept as given.
C17_DescriptionTooLongIffOver1000 ==
    verdict.fn = "description"
    => /\ (~verdict.r.ok /\ verdict.r.err = DescriptionTooLong) <=> ByteLen(input) > 1000
       /\ verdict.r.ok <=> ByteLen(input) <= 1000
       /\ verdict.r.ok => verdict.r.val = input

\* A description of 1000 bytes in 500 two-byte characters has been accepted.
C17_Witness ==
    /\ verdict.fn = "description"
    /\ input = << <<"E", 500>> >>
    /\ verdict.r.ok /\ verdict.r.val = input

\* The tasks whose patch_ticket holds ticket i's write lock and has begun.
Patching(i) ==
    {u \in Tasks : HoldsIn(slotLock[i], u, "W") /\ tid[u] = i /\ before[u] # None}

\* The value of ticket i outside any patch: the value it had when the
\* patch_ticket now holding its write lock got the lock, or, with no such patch,
\* its present value, which is what the last patch left when it let go.
Committed(i) ==
    IF Patching(i) = {} THEN tickets[i]
    ELSE before[CHOOSE u \in Patching(i) : TRUE][1]

C18_Step ==
    \A t \in Tasks :
        /\ (pc[t] = "get_read" /\ pc'[t] = "get_unlock")
           => result'[t].ticket[1] = Committed(tid[t])
        /\ (pc[t] = "list_read" /\ pc'[t] = "list_next")
           => out'[t][Len(out'[t])] = Committed(tid[t])

\* C18: the ticket a get_ticket or list_tickets copies is never a ticket in the
\* middle of a patch: it is the value from before the patch got the write lock
\* or the value the patch left when it released it.
C18_ReadersSeeNoPartialPatch == [][C18_Step]_vars

\* A get_ticket that waited for a patch_ticket of the same ticket returned what
\* the patch left: the new title, and the old status, the patch having failed on
\* its description.
C18_Witness ==
    \E t, u \in Tasks :
        /\ pc[t] = "done" /\ cur[t].op = "get" /\ result[t].kind = "Ok"
        /\ <<u, "patch_ticket">> \in blockedBy[t]
        /\ cur[u].op = "patch" /\ tid[u] = tid[t]
        /\ result[u].kind = "InvalidField"
        /\ before[u] # None /\ before[u][1].title = TitleOk
        /\ result[t].ticket[1].title = TitleMax
        /\ result[t].ticket[1].status = "ToDo"

\* The task runs a request.
Running(t) == pc[t] \notin {"idle", "done"}

\* C19: every call returns: a task that runs a request gets, in the end, to the
\* end of it, whatever the other tasks run.
C19_EveryCallReturns == \A t \in Tasks : Running(t) ~> (pc[t] = "done")

\* Two calls wait at the same time, an add_ticket for the map's write lock and
\* a get_ticket for the lock of a ticket that a patch_ticket holds for writing.
C19_Witness ==
    \E t, u, v \in Tasks :
        /\ pc[v] = "add_insert" /\ Waits(mapLock, v)
        /\ pc[t] = "get_read" /\ Waits(slotLock[1], t)
        /\ HoldsIn(slotLock[1], u, "W")

\* The tickets a list_tickets has collected, by id.
Listed(t) ==
    [i \in ListedIds(t) |-> out[t][CHOOSE k \in DOMAIN out[t] : out[t][k].id = i]]

\* The listing is the store's contents at some instant of the call.
IsSnapshot(t) == \E s \in seen[t] : s = Listed(t)

\* The tickets whose value changed while the task's list_tickets ran.
ChangedDuring(t) ==
    {i \in Ids : \E s1, s2 \in seen[t] :
        i \in DOMAIN s1 /\ i \in DOMAIN s2 /\ s1[i] # s2[i]}

\* C20 as stated: what list_tickets returns is the store's contents at one
\* instant between the call and the return.
C20_ListIsSnapshot == \A t \in Tasks : ListEnds(t) => IsSnapshot(t)

\* C20, amended: what list_tickets returns is the store's contents at one
\* instant between the call and the return when at most one ticket changes
\* while the call runs.
C20_ListIsSnapshotOfOneChange ==
    \A t \in Tasks :
        (ListEnds(t) /\ Cardinality(ChangedDuring(t)) <= 1) => IsSnapshot(t)

\* A list_tickets of two tickets returned the first with the status a
\* patch_ticket gave it while the listing ran.
C20_Witness ==
    \E t \in Tasks :
        /\ ListEnds(t)
        /\ Len(out[t]) = 2
        /\ ChangedDuring(t) = {1}
        /\ Listed(t)[1].status = "InProgress"
        /\ IsSnapshot(t)

\* The task's request is a POST /tickets whose title and description are valid.
ValidCreate(t) ==
    /\ cur[t].op = "create"
    /\ TitleWithinBounds(cur[t].title[1])
    /\ DescriptionWithinBounds(cur[t].description[1])

\* C21: the get_ticket that create_ticket makes for the id add_ticket returned
\* answers Ok, no create_ticket ends with 500, and a create_ticket with a valid
\* title and description that has ended has ended with 201.
C21_CreateNeverFails ==
    \A t \in Tasks :
        /\ cur[t].op = "create" => http[t] # 500
        /\ (cur[t].op = "create" /\ pc[t] = "get_unlock") => result[t].kind = "Ok"
        /\ (ValidCreate(t) /\ pc[t] = "done") => http[t] = 201

\* A create_ticket ended with 201 although its get_ticket had to wait for a
\* patch_ticket that took the new ticket's write lock right after the insert,
\* and changed the ticket.
C21_Witness ==
    \E t, u \in Tasks :
        /\ ValidCreate(t) /\ pc[t] = "done" /\ http[t] = 201
        /\ <<u, "patch_ticket">> \in blockedBy[t]
        /\ cur[u].op = "patch" /\ tid[u] = tid[t]
        /\ result[t].ticket[1].title # cur[t].title[1]

====
